---- MODULE Spec2Model ----
(***************************************************************************)
(* Model of the civic issue tracker backend (backend/app.py and            *)
(* backend/models.py): the issues, issue_images and status_logs tables,    *)
(* and the request handlers that create, edit, triage, upvote, flag,       *)
(* delete and list issues.  The server is threaded and each request runs   *)
(* in an ORM session of its own, so a handler is a sequence of steps, one  *)
(* for each point where its session reads the tables or commits to them,   *)
(* and the steps of the requests in Reqs interleave: a handler loads the   *)
(* row, commits what it computed from the row as loaded, reads the row     *)
(* back, and then reads the issue's images and its logs, each with a       *)
(* SELECT of its own.  Spec takes every request with every input;          *)
(* SpecFlag, SpecStatus, SpecAdmin, SpecFlagged, SpecCreate, SpecFields,   *)
(* SpecVotes and SpecList take the requests of one family of handlers      *)
(* each.                                                                   *)
(* Timestamps (created_at, timestamp) are not modelled.                    *)
(***************************************************************************)
EXTENDS Integers, Sequences, FiniteSets, TLC

VARIABLES issues, issue_images, status_logs, resp, sess

vars == <<issues, issue_images, status_logs, resp, sess>>

(* ---------------------------- bounds ----------------------------------- *)
\* rows the status_logs and issue_images tables may hold, and the largest
\* flag and upvote counts a request may raise a counter to (MaxVotes is
\* the upvote count of SpecVotes)
MaxLogs == 3
MaxImages == 1
MaxFlags == 6
MaxUpvotes == 1
MaxVotes == 3

\* the issue ids the requests address: the table holds one issue at a
\* time, and the id is given again once that issue is deleted
IssueIds == {1}

(* ------------------------ program constants ---------------------------- *)
FlagThreshold == 5
DefaultRadius == 5

NULL == 0
MISSING == "<missing>"

\* users table: rows are never changed by the handlers modelled here
Users == 1..3

is_admin == [u \in Users |-> u \in {2, 3}]

username == [u \in Users |-> CASE u = 1 -> "asha" [] u = 2 -> "ravi" [] OTHER -> "meena"]

ALLOWED_EXTENSIONS == {<<"p", "n", "g">>, <<"j", "p", "g">>, <<"j", "p", "e", "g">>, <<"g", "i", "f">>}

AdminStatuses == {"Reported", "In Progress", "Resolved"}

(* --------------------------- helpers ----------------------------------- *)
SetMax(S) == CHOOSE m \in S : \A x \in S : x <= m

\* str.lower() on the characters the file names of this model are written in
LowerChar(c) ==
    CASE c = "P" -> "p" [] c = "N" -> "n" [] c = "G" -> "g" [] c = "J" -> "j"
      [] OTHER -> c

LowerSeq(s) == [k \in 1..Len(s) |-> LowerChar(s[k])]

\* positions of "." in a name
DotPositions(s) == {k \in 1..Len(s) : s[k] = "."}

\* name.rsplit('.', 1)[1]; only defined when the name holds a "."
RsplitExt(s) == SubSeq(s, SetMax(DotPositions(s)) + 1, Len(s))

allowed_file(filename) ==
    /\ DotPositions(filename) # {}
    /\ LowerSeq(RsplitExt(filename)) \in ALLOWED_EXTENSIONS

\* werkzeug secure_filename: characters with no ASCII form are dropped,
\* "/" becomes a blank, the words between blanks are joined by "_",
\* characters outside [A-Za-z0-9_.-] are removed, and leading and trailing
\* "." and "_" are stripped.  AsciiSafe is the part of [A-Za-z0-9_.-] that
\* the file names of this model are written in.
AsciiSafe == {"a", "b", "p", "n", "g", "j", "t", "x", "P", "N", "G", "J", ".", "_", "-"}

Blanked(s) == [k \in 1..Len(s) |-> IF s[k] = "/" THEN " " ELSE s[k]]

RECURSIVE DropBlanks(_)
DropBlanks(s) ==
    IF s # <<>> /\ Head(s) = " " THEN DropBlanks(Tail(s)) ELSE s

\* "_".join(s.split())
RECURSIVE JoinWords(_)
JoinWords(s) ==
    LET t == DropBlanks(s)
    IN IF t = <<>> THEN <<>>
       ELSE LET rest == Tail(t)
            IN IF rest # <<>> /\ Head(rest) = " " /\ DropBlanks(rest) # <<>>
               THEN <<Head(t), "_">> \o JoinWords(rest)
               ELSE <<Head(t)>> \o JoinWords(rest)

RECURSIVE FilterSafe(_)
FilterSafe(s) ==
    IF s = <<>> THEN <<>>
    ELSE IF Head(s) \in AsciiSafe THEN <<Head(s)>> \o FilterSafe(Tail(s))
    ELSE FilterSafe(Tail(s))

RECURSIVE StripLeft(_)
StripLeft(s) ==
    IF s # <<>> /\ Head(s) \in {".", "_"} THEN StripLeft(Tail(s)) ELSE s

RECURSIVE StripRight(_)
StripRight(s) ==
    IF s # <<>> /\ s[Len(s)] \in {".", "_"}
    THEN StripRight(SubSeq(s, 1, Len(s) - 1)) ELSE s

secure_filename(s) == StripRight(StripLeft(FilterSafe(JoinWords(Blanked(s)))))

\* float(): the strings a form or a query may carry that parse, and the
\* number each one parses to (whole degrees or km); any other string raises
\* ValueError
FloatStrings == {"12", "77", "-12", "95", "200", "0", "3000"}

ParseFloat(s) ==
    CASE s = "12" -> 12 [] s = "77" -> 77 [] s = "-12" -> 0 - 12
      [] s = "95" -> 95 [] s = "0" -> 0 [] s = "3000" -> 3000 [] OTHER -> 200

\* str.lower() on the is_anonymous form value
LowerStr(s) ==
    CASE s = "True" -> "true" [] s = "TRUE" -> "true" [] s = "False" -> "false"
      [] OTHER -> s

ParseAnonymous(v) == LowerStr(IF v = MISSING THEN "false" ELSE v) = "true"

(* ------------------------- reading the store --------------------------- *)
\* rows of a table (a sequence, row id = position) that reference issue i,
\* in row id order
RowsOf(table, i) == SelectSeq(table, LAMBDA row : row.issue_id = i)

Option(present, v) == IF present THEN {v} ELSE {}

format_log(log) ==
    [status |-> log.status,
     admin |-> Option(log.admin_id # NULL,
                      [id |-> log.admin_id,
                       username |-> IF log.admin_id \in Users
                                    THEN username[log.admin_id] ELSE ""])]

\* format_user that names the owner of every issue
format_user_always(issue) ==
    {[id |-> issue.user_id,
      username |-> username[issue.user_id],
      is_anonymous |-> issue.is_anonymous]}

\* lines 39-43: the "user" entry, None for an anonymous issue
format_user(issue) ==
    Option(~issue.is_anonymous,
           [id |-> issue.user_id,
            username |-> username[issue.user_id],
            is_anonymous |-> issue.is_anonymous])

\* lines 29-56 for issue row `issue` with id i, given the rows its lazy
\* relationships returned: `ims` from the SELECT of issue.images (line 46)
\* and `lgs` from the SELECT of issue.logs (line 48); current_user_id is
\* NULL when not passed
format_issue(i, issue, ims, lgs, current_user_id) ==
    [id |-> i,
     title |-> issue.title,
     description |-> issue.description,
     category |-> issue.category,
     latitude |-> issue.latitude,
     longitude |-> issue.longitude,
     status |-> issue.status,
     user |-> format_user(issue),
     upvotes |-> issue.upvotes,
     flags |-> issue.flags,
     images |-> [k \in 1..Len(ims) |-> ims[k].filename],
     can_edit |-> IF current_user_id # NULL
                  THEN current_user_id = issue.user_id ELSE FALSE,
     logs |-> [k \in 1..Len(lgs) |-> format_log(lgs[k])]]

\* the answer sent by the step just taken: the endpoint, the HTTP status
\* and the JSON body; NoResponse after a step that sends none
Response(op, code, body) == [op |-> op, code |-> code, body |-> body]

ErrorBody(msg) == [error |-> msg]

NoResponse == Response("none", 0, [none |-> TRUE])

\* each request runs in a session of its own (Flask-SQLAlchemy scopes the
\* session to the request); sess[r] holds what request r keeps between its
\* database steps: the handler, how far it is, its inputs, and the row as
\* its session loaded it
Idle == [op |-> "idle"]

Reqs == 1..2

Init ==
    /\ issues = <<>>
    /\ issue_images = <<>>
    /\ status_logs = <<>>
    /\ resp = NoResponse
    /\ sess = [r \in Reqs |-> Idle]

\* db.session.commit() for an object loaded as `loaded` and changed in
\* memory to `obj`: the UPDATE names only the columns whose value differs
\* from the loaded one, and is emitted only if there is one (Dirty); it
\* finds no row, and raises StaleDataError, when the row was deleted
Dirty(loaded, obj) == \E c \in DOMAIN loaded : obj[c] # loaded[c]

Flushed(row, loaded, obj) ==
    [c \in DOMAIN row |->
       IF c \in DOMAIN loaded /\ obj[c] # loaded[c] THEN obj[c] ELSE row[c]]

\* of the row a handler loaded, the session is carried by the columns the
\* handler goes on to read or assign: no other loaded value is used again
Columns(row, cols) == [c \in cols |-> row[c]]

(* --------------------------- serialising ------------------------------- *)
\* What a request keeps while format_issue serialises the issue rows its
\* session holds: `todo`, the rows still to serialise, each as the SELECT
\* of the issues table returned it; `out`, the issues serialised so far;
\* user_id, the caller, and current_user_id, what the handler passes to
\* format_issue for can_edit.  The relationships issue.images and
\* issue.logs are lazy (models.py lines 42-43): each is loaded by a SELECT
\* of its own when format_issue comes to it, first the images of an issue
\* (line 46), then its logs (line 48), issue after issue.  issue.user and
\* log.admin are read from the users table, which no handler changes
Formatting(op, user_id, current_user_id, todo) ==
    [op |-> op, phase |-> "images", user_id |-> user_id,
     current_user_id |-> current_user_id, todo |-> todo, out |-> <<>>]

\* the rows of the issues table with the ids `ids`, in that order
Loaded(ids) == [k \in 1..Len(ids) |-> [id |-> ids[k], row |-> issues[ids[k]]]]

\* line 157 answers 201; lines 123, 180, 200 and 233 answer 200
AnswerCode(op) == IF op = "create" THEN 201 ELSE 200

\* lines 123 and 233 send the JSON array of the serialised issues (carried
\* as the field "issues"), lines 157, 180 and 200 the one issue
AnswerBody(op, out) == IF op \in {"list", "adminList"} THEN [issues |-> out] ELSE out[1]

\* line 46: issue.images of the next issue is loaded
FormatImages(r) ==
    /\ sess[r].op # "idle"
    /\ sess[r].phase = "images"
    /\ UNCHANGED <<issues, issue_images, status_logs>>
    /\ sess' = [sess EXCEPT ![r] =
                  [op |-> sess[r].op, phase |-> "logs", user_id |-> sess[r].user_id,
                   current_user_id |-> sess[r].current_user_id,
                   todo |-> sess[r].todo, out |-> sess[r].out,
                   images |-> RowsOf(issue_images, sess[r].todo[1].id)]]
    /\ resp' = NoResponse

\* lines 48-55: issue.logs of that issue is loaded and the issue is
\* serialised; after the last issue the answer is sent
FormatLogs(r) ==
    /\ sess[r].op # "idle"
    /\ sess[r].phase = "logs"
    /\ UNCHANGED <<issues, issue_images, status_logs>>
    /\ LET s == sess[r]
           id == s.todo[1].id
           out == Append(s.out, format_issue(id, s.todo[1].row, s.images,
                                             RowsOf(status_logs, id),
                                             s.current_user_id))
       IN IF Len(s.todo) = 1
          THEN /\ sess' = [sess EXCEPT ![r] = Idle]
               /\ resp' = Response(s.op, AnswerCode(s.op), AnswerBody(s.op, out))
          ELSE /\ sess' = [sess EXCEPT ![r] =
                             [op |-> s.op, phase |-> "images", user_id |-> s.user_id,
                              current_user_id |-> s.current_user_id,
                              todo |-> Tail(s.todo), out |-> out]]
               /\ resp' = NoResponse

(* ------------------------------ create --------------------------------- *)
\* the primary key the issues table gives a new row: one past the largest
\* id in the table
NextIssueId == IF DOMAIN issues = {} THEN 1 ELSE SetMax(DOMAIN issues) + 1

\* lines 132-140: the form fields are read in this order; a missing key
\* raises KeyError and an unparsable number ValueError, before any insert
FormError(form) ==
    CASE form.title = MISSING -> "KeyError"
      [] form.description = MISSING -> "KeyError"
      [] form.category = MISSING -> "KeyError"
      [] form.latitude = MISSING -> "KeyError"
      [] form.latitude \notin FloatStrings -> "ValueError"
      [] form.longitude = MISSING -> "KeyError"
      [] form.longitude \notin FloatStrings -> "ValueError"
      [] OTHER -> "none"

\* lines 132-140: the Issue object of the form, with the column defaults
\* of models.py lines 34-39 (status, upvotes, flags)
NewIssue(user_id, form) ==
    [title |-> form.title,
     description |-> form.description,
     category |-> form.category,
     latitude |-> ParseFloat(form.latitude),
     longitude |-> ParseFloat(form.longitude),
     status |-> "Reported",
     user_id |-> user_id,
     is_anonymous |-> ParseAnonymous(form.is_anonymous),
     upvotes |-> 0,
     flags |-> 0]

\* lines 146-147: the uploads that pass "if file and allowed_file(...)"
AcceptedFiles(files) ==
    SelectSeq(files, LAMBDA f : f # <<>> /\ allowed_file(f))

\* line 148: secure_filename(name).rsplit('.', 1)[1] raises IndexError when
\* the secured name holds no "."; line 149: file.save raises when the
\* upload folder cannot be written (io_ok = FALSE)
UploadError(files, io_ok) ==
    LET acc == AcceptedFiles(files)
        bad == {k \in 1..Len(acc) : DotPositions(secure_filename(acc[k])) = {}}
    IN CASE acc = <<>> -> "none"
         [] ~io_ok -> IF 1 \in bad THEN "IndexError" ELSE "OSError"
         [] bad # {} -> "IndexError"
         [] OTHER -> "none"

\* line 148: the stored name is a fresh uuid4 and the lowered extension of
\* the secured name; the uuid is modelled by the number of the row
NewImages(files, issue_id) ==
    LET acc == AcceptedFiles(files)
    IN [k \in 1..Len(acc) |->
          [filename |-> [uuid |-> Len(issue_images) + k,
                         ext |-> LowerSeq(RsplitExt(secure_filename(acc[k])))],
           issue_id |-> issue_id]]

NewLog(issue_id, status, admin_id) ==
    [issue_id |-> issue_id, status |-> status, admin_id |-> admin_id]

\* the issues table with row id added or replaced
WithIssue(iss, id, row) ==
    [k \in DOMAIN iss \cup {id} |-> IF k = id THEN row ELSE iss[k]]

\* POST /api/issues up to its first commit (lines 128-142): the issue row
\* is committed on its own
ReportBegin(r, ids, user_id, form) ==
    /\ sess[r] = Idle
    /\ NextIssueId \in ids
    /\ Len(status_logs) < MaxLogs
    /\ Len(issue_images) + Len(AcceptedFiles(form.files)) <= MaxImages
    /\ UNCHANGED <<issue_images, status_logs>>
    /\ IF FormError(form) # "none"
       THEN /\ resp' = Response("create", 400, ErrorBody(FormError(form)))
            /\ UNCHANGED <<issues, sess>>
       ELSE /\ issues' = WithIssue(issues, NextIssueId, NewIssue(user_id, form))
            /\ sess' = [sess EXCEPT ![r] = [op |-> "create", phase |-> "uploads",
                                             user_id |-> user_id,
                                             issue |-> NextIssueId, form |-> form]]
            /\ resp' = NoResponse

\* lines 145-153: the uploads are saved and new_issue.id is read back from
\* the row (the first commit expired the object) for the first image row,
\* or for the log row when there is none; the read raises
\* ObjectDeletedError when the row is gone.  Any exception rolls back and
\* is answered 400 (lines 158-160); the issue row stays
ReportUploads(r, io_ok) ==
    /\ sess[r].op = "create"
    /\ sess[r].phase = "uploads"
    /\ UNCHANGED <<issues, issue_images, status_logs>>
    /\ LET id == sess[r].issue
           acc == AcceptedFiles(sess[r].form.files)
           first == IF acc = <<>> THEN <<>> ELSE <<acc[1]>>
           err == IF UploadError(first, io_ok) # "none" THEN UploadError(first, io_ok)
                  ELSE IF id \notin DOMAIN issues THEN "ObjectDeletedError"
                  ELSE UploadError(acc, io_ok)
       IN IF err # "none"
          THEN /\ sess' = [sess EXCEPT ![r] = Idle]
               /\ resp' = Response("create", 400, ErrorBody(err))
          ELSE /\ sess' = [sess EXCEPT ![r].phase = "commit"]
               /\ resp' = NoResponse

\* lines 150-155: the image rows and the Reported log are committed
ReportCommit(r) ==
    /\ sess[r].op = "create"
    /\ sess[r].phase = "commit"
    /\ Len(status_logs) < MaxLogs
    /\ Len(issue_images) + Len(AcceptedFiles(sess[r].form.files)) <= MaxImages
    /\ UNCHANGED issues
    /\ issue_images' = issue_images \o NewImages(sess[r].form.files, sess[r].issue)
    /\ status_logs' = Append(status_logs, NewLog(sess[r].issue, "Reported", NULL))
    /\ sess' = [sess EXCEPT ![r].phase = "answer"]
    /\ resp' = NoResponse

\* line 157: format_issue starts by reading new_issue, expired by the
\* commit, back from the issues table; inside the try block, so a row that
\* is gone is answered 400
ReportAnswer(r) ==
    /\ sess[r].op = "create"
    /\ sess[r].phase = "answer"
    /\ UNCHANGED <<issues, issue_images, status_logs>>
    /\ IF sess[r].issue \in DOMAIN issues
       THEN /\ sess' = [sess EXCEPT ![r] =
                          Formatting("create", sess[r].user_id, sess[r].user_id,
                                     Loaded(<<sess[r].issue>>))]
            /\ resp' = NoResponse
       ELSE /\ sess' = [sess EXCEPT ![r] = Idle]
            /\ resp' = Response("create", 400, ErrorBody("ObjectDeletedError"))

(* ------------------------------- edit ---------------------------------- *)
\* ApplyPatch that assigns the three keys whether present or not
ApplyPatchEveryKey(issue, data) ==
    [issue EXCEPT
       !.title = data.title,
       !.description = data.description,
       !.category = data.category]

\* lines 172-177: only the keys present in the JSON body are assigned
ApplyPatch(issue, data) ==
    [issue EXCEPT
       !.title = IF data.title # MISSING THEN data.title ELSE @,
       !.description = IF data.description # MISSING THEN data.description ELSE @,
       !.category = IF data.category # MISSING THEN data.category ELSE @]

\* line 168
EditForbidden(issue, user_id) == issue.user_id # user_id /\ ~is_admin[user_id]

\* a commit whose UPDATE found no row, and a read-back of a row that is
\* gone, raise outside any try block: the request is answered 500
ServerError(op, name) == Response(op, 500, ErrorBody(name))

\* PUT /api/issues/<id>: lines 165-169, the row is loaded and the caller
\* tested against it
UpdateIssueLoad(r, user_id, issue_id, data) ==
    /\ sess[r] = Idle
    /\ UNCHANGED <<issues, issue_images, status_logs>>
    /\ IF issue_id \notin DOMAIN issues
       THEN /\ resp' = Response("edit", 404, ErrorBody("Not Found"))
            /\ UNCHANGED sess
       ELSE IF EditForbidden(issues[issue_id], user_id)
       THEN /\ resp' = Response("edit", 403, ErrorBody("Unauthorized"))
            /\ UNCHANGED sess
       ELSE /\ sess' = [sess EXCEPT ![r] = [op |-> "edit", phase |-> "loaded",
                                             user_id |-> user_id, issue |-> issue_id,
                                             data |-> data,
                                             loaded |-> Columns(issues[issue_id],
                                                 {"title", "description", "category"})]]
            /\ resp' = NoResponse

\* lines 171-179: the assignments to the loaded object and the commit
UpdateIssueCommit(r) ==
    /\ sess[r].op = "edit"
    /\ sess[r].phase = "loaded"
    /\ UNCHANGED <<issue_images, status_logs>>
    /\ LET id == sess[r].issue
           loaded == sess[r].loaded
           obj == ApplyPatch(loaded, sess[r].data)
       IN IF Dirty(loaded, obj) /\ id \notin DOMAIN issues
          THEN /\ UNCHANGED issues
               /\ sess' = [sess EXCEPT ![r] = Idle]
               /\ resp' = ServerError("edit", "StaleDataError")
          ELSE /\ issues' = IF Dirty(loaded, obj)
                            THEN [issues EXCEPT ![id] = Flushed(@, loaded, obj)]
                            ELSE issues
               /\ sess' = [sess EXCEPT ![r] = [op |-> "edit", phase |-> "answer",
                                                user_id |-> sess[r].user_id,
                                                issue |-> id]]
               /\ resp' = NoResponse

\* line 180: format_issue starts by reading the row, expired by the
\* commit, back from the issues table
UpdateIssueAnswer(r) ==
    /\ sess[r].op = "edit"
    /\ sess[r].phase = "answer"
    /\ UNCHANGED <<issues, issue_images, status_logs>>
    /\ IF sess[r].issue \in DOMAIN issues
       THEN /\ sess' = [sess EXCEPT ![r] =
                          Formatting("edit", sess[r].user_id, sess[r].user_id,
                                     Loaded(<<sess[r].issue>>))]
            /\ resp' = NoResponse
       ELSE /\ sess' = [sess EXCEPT ![r] = Idle]
            /\ resp' = ServerError("edit", "ObjectDeletedError")

(* ----------------------------- setStatus ------------------------------- *)
\* Unauthorized that lets every caller through
UnauthorizedNever(user_id) == FALSE

\* lines 185-186 and 238-239: the caller's users row is not an admin's
Unauthorized(user_id) == ~is_admin[user_id]

\* InvalidStatus that only tests for a status being given
InvalidStatusNotGiven(new_status) == new_status = MISSING \/ new_status = ""

\* line 192; a missing "status" key gives None
InvalidStatus(new_status) ==
    new_status = MISSING \/ new_status = "" \/ new_status \notin AdminStatuses

\* PUT /api/issues/<id>/status: lines 185-193, the caller, the row and the
\* new status are tested
UpdateIssueStatusLoad(r, user_id, issue_id, new_status) ==
    /\ sess[r] = Idle
    /\ UNCHANGED <<issues, issue_images, status_logs>>
    /\ IF Unauthorized(user_id)
       THEN /\ resp' = Response("setStatus", 403, ErrorBody("Unauthorized"))
            /\ UNCHANGED sess
       ELSE IF issue_id \notin DOMAIN issues
       THEN /\ resp' = Response("setStatus", 404, ErrorBody("Not Found"))
            /\ UNCHANGED sess
       ELSE IF InvalidStatus(new_status)
       THEN /\ resp' = Response("setStatus", 400, ErrorBody("Invalid status"))
            /\ UNCHANGED sess
       ELSE /\ Len(status_logs) < MaxLogs
            /\ sess' = [sess EXCEPT ![r] = [op |-> "setStatus", phase |-> "loaded",
                                             user_id |-> user_id, issue |-> issue_id,
                                             status |-> new_status,
                                             loaded |-> Columns(issues[issue_id],
                                                                {"status"})]]
            /\ resp' = NoResponse

\* lines 195-198: the status assignment and the log row, in one commit
UpdateIssueStatusCommit(r) ==
    /\ sess[r].op = "setStatus"
    /\ sess[r].phase = "loaded"
    /\ UNCHANGED issue_images
    /\ LET id == sess[r].issue
           loaded == sess[r].loaded
           obj == [loaded EXCEPT !.status = sess[r].status]
       IN IF Dirty(loaded, obj) /\ id \notin DOMAIN issues
          THEN /\ UNCHANGED <<issues, status_logs>>
               /\ sess' = [sess EXCEPT ![r] = Idle]
               /\ resp' = ServerError("setStatus", "StaleDataError")
          ELSE /\ Len(status_logs) < MaxLogs
               /\ issues' = IF Dirty(loaded, obj)
                            THEN [issues EXCEPT ![id] = Flushed(@, loaded, obj)]
                            ELSE issues
               /\ status_logs' = Append(status_logs,
                                        NewLog(id, sess[r].status, sess[r].user_id))
               /\ sess' = [sess EXCEPT ![r] = [op |-> "setStatus", phase |-> "answer",
                                                user_id |-> sess[r].user_id,
                                                issue |-> id,
                                                status |-> sess[r].status]]
               /\ resp' = NoResponse

\* line 200: format_issue(issue), without the caller, starts by reading
\* the row, expired by the commit, back from the issues table
UpdateIssueStatusAnswer(r) ==
    /\ sess[r].op = "setStatus"
    /\ sess[r].phase = "answer"
    /\ UNCHANGED <<issues, issue_images, status_logs>>
    /\ IF sess[r].issue \in DOMAIN issues
       THEN /\ sess' = [sess EXCEPT ![r] =
                          Formatting("setStatus", sess[r].user_id, NULL,
                                     Loaded(<<sess[r].issue>>))]
            /\ resp' = NoResponse
       ELSE /\ sess' = [sess EXCEPT ![r] = Idle]
            /\ resp' = ServerError("setStatus", "ObjectDeletedError")

(* ------------------------------ upvote --------------------------------- *)
\* Upvoted that records a vote instead of counting one
UpvotedOnce(row) == [row EXCEPT !.upvotes = 1]

\* line 206: issue.upvotes += 1
Upvoted(row) == [row EXCEPT !.upvotes = @ + 1]

\* POST /api/issues/<id>/upvote: line 205, the row is loaded (requests are
\* taken while the count is below `max`)
UpvoteIssueLoad(r, max, issue_id) ==
    /\ sess[r] = Idle
    /\ UNCHANGED <<issues, issue_images, status_logs>>
    /\ IF issue_id \notin DOMAIN issues
       THEN /\ resp' = Response("upvote", 404, ErrorBody("Not Found"))
            /\ UNCHANGED sess
       ELSE /\ issues[issue_id].upvotes < max
            /\ sess' = [sess EXCEPT ![r] = [op |-> "upvote", phase |-> "loaded",
                                             issue |-> issue_id,
                                             loaded |-> Columns(issues[issue_id],
                                                                {"upvotes"})]]
            /\ resp' = NoResponse

\* lines 206-207: the loaded count plus one is committed
UpvoteIssueCommit(r) ==
    /\ sess[r].op = "upvote"
    /\ sess[r].phase = "loaded"
    /\ UNCHANGED <<issue_images, status_logs>>
    /\ LET id == sess[r].issue
           loaded == sess[r].loaded
       IN IF id \notin DOMAIN issues
          THEN /\ UNCHANGED issues
               /\ sess' = [sess EXCEPT ![r] = Idle]
               /\ resp' = ServerError("upvote", "StaleDataError")
          ELSE /\ issues' = [issues EXCEPT ![id] = Flushed(@, loaded, Upvoted(loaded))]
               /\ sess' = [sess EXCEPT ![r] = [op |-> "upvote", phase |-> "answer",
                                                issue |-> id]]
               /\ resp' = NoResponse

\* line 208: issue.upvotes is read back from the row as it is now
UpvoteIssueAnswer(r) ==
    /\ sess[r].op = "upvote"
    /\ sess[r].phase = "answer"
    /\ UNCHANGED <<issues, issue_images, status_logs>>
    /\ sess' = [sess EXCEPT ![r] = Idle]
    /\ resp' = IF sess[r].issue \in DOMAIN issues
               THEN Response("upvote", 200, [upvotes |-> issues[sess[r].issue].upvotes])
               ELSE ServerError("upvote", "ObjectDeletedError")

(* ------------------------------- flag ---------------------------------- *)
\* line 216: the auto-hide test on the incremented count
AutoHide(flags) == flags >= FlagThreshold

\* lines 214-221 as the UPDATE and INSERT the session flushes at commit,
\* for an issue it loaded as `loaded`: flags is set to the loaded count
\* plus one; status is set to Flagged, and a Flagged log inserted, when
\* that count reaches the threshold (status is part of the UPDATE only
\* when the assignment changed the loaded value)
FlagRow(row, loaded) ==
    LET n == loaded.flags + 1
    IN [row EXCEPT
          !.flags = n,
          !.status = IF AutoHide(n) /\ loaded.status # "Flagged" THEN "Flagged" ELSE @]

FlagLogs(logs, issue_id, loaded) ==
    IF AutoHide(loaded.flags + 1)
    THEN Append(logs, NewLog(issue_id, "Flagged", NULL))
    ELSE logs

\* POST /api/issues/<id>/flag: line 213, the row is loaded (requests are
\* taken while the count is below `max`)
FlagLoad(r, max, issue_id) ==
    /\ sess[r] = Idle
    /\ UNCHANGED <<issues, issue_images, status_logs>>
    /\ IF issue_id \notin DOMAIN issues
       THEN /\ resp' = Response("flag", 404, ErrorBody("Not Found"))
            /\ UNCHANGED sess
       ELSE /\ issues[issue_id].flags < max
            /\ Len(FlagLogs(status_logs, issue_id, issues[issue_id])) <= MaxLogs
            /\ sess' = [sess EXCEPT ![r] = [op |-> "flag", phase |-> "loaded",
                                             issue |-> issue_id,
                                             loaded |-> Columns(issues[issue_id],
                                                                {"flags", "status"})]]
            /\ resp' = NoResponse

\* lines 214-221: the increment of the loaded count, the auto-hide and the
\* commit
FlagCommit(r) ==
    /\ sess[r].op = "flag"
    /\ sess[r].phase = "loaded"
    /\ UNCHANGED issue_images
    /\ LET id == sess[r].issue
           loaded == sess[r].loaded
       IN IF id \notin DOMAIN issues
          THEN /\ UNCHANGED <<issues, status_logs>>
               /\ sess' = [sess EXCEPT ![r] = Idle]
               /\ resp' = ServerError("flag", "StaleDataError")
          ELSE /\ Len(FlagLogs(status_logs, id, loaded)) <= MaxLogs
               /\ issues' = [issues EXCEPT ![id] = FlagRow(@, loaded)]
               /\ status_logs' = FlagLogs(status_logs, id, loaded)
               /\ sess' = [sess EXCEPT ![r] = [op |-> "flag", phase |-> "answer",
                                                issue |-> id]]
               /\ resp' = NoResponse

\* line 222: issue.flags is read back from the row as it is now
FlagAnswer(r) ==
    /\ sess[r].op = "flag"
    /\ sess[r].phase = "answer"
    /\ UNCHANGED <<issues, issue_images, status_logs>>
    /\ sess' = [sess EXCEPT ![r] = Idle]
    /\ resp' = IF sess[r].issue \in DOMAIN issues
               THEN Response("flag", 200, [flags |-> issues[sess[r].issue].flags])
               ELSE ServerError("flag", "ObjectDeletedError")

(* ------------------------------ delete --------------------------------- *)
\* the images and logs relationships (models.py lines 42-43) declare no
\* delete cascade: when the issue row is deleted the session sets the
\* issue_id of the image and log rows it holds for the issue to NULL and
\* keeps the rows.  ChildRows is the SELECT that loads them, as their
\* places in the table (rows are never removed from these tables)
ChildRows(table, issue_id) == {k \in 1..Len(table) : table[k].issue_id = issue_id}

Orphaned(table, rows) ==
    [k \in 1..Len(table) |->
       IF k \in rows THEN [table[k] EXCEPT !.issue_id = NULL] ELSE table[k]]

\* DELETE /api/admin/issues/<id>: lines 238-243, the caller is tested, the
\* row loaded and marked for deletion
DeleteIssueLoad(r, user_id, issue_id) ==
    /\ sess[r] = Idle
    /\ UNCHANGED <<issues, issue_images, status_logs>>
    /\ IF Unauthorized(user_id)
       THEN /\ resp' = Response("delete", 403, ErrorBody("Unauthorized"))
            /\ UNCHANGED sess
       ELSE IF issue_id \notin DOMAIN issues
       THEN /\ resp' = Response("delete", 404, ErrorBody("Not Found"))
            /\ UNCHANGED sess
       ELSE /\ sess' = [sess EXCEPT ![r] = [op |-> "delete", phase |-> "loaded",
                                             issue |-> issue_id]]
            /\ resp' = NoResponse

\* line 244, db.session.commit(): the flush first loads the collections of
\* the issue, each by a SELECT of its own and in the order the model
\* declares them: issue.images ...
DeleteIssueImages(r) ==
    /\ sess[r].op = "delete"
    /\ sess[r].phase = "loaded"
    /\ UNCHANGED <<issues, issue_images, status_logs>>
    /\ sess' = [sess EXCEPT ![r] = [op |-> "delete", phase |-> "imagesLoaded",
                                     issue |-> sess[r].issue,
                                     images |-> ChildRows(issue_images, sess[r].issue)]]
    /\ resp' = NoResponse

\* ... then issue.logs
DeleteIssueLogs(r) ==
    /\ sess[r].op = "delete"
    /\ sess[r].phase = "imagesLoaded"
    /\ UNCHANGED <<issues, issue_images, status_logs>>
    /\ sess' = [sess EXCEPT ![r] = [op |-> "delete", phase |-> "childrenLoaded",
                                     issue |-> sess[r].issue,
                                     images |-> sess[r].images,
                                     logs |-> ChildRows(status_logs, sess[r].issue)]]
    /\ resp' = NoResponse

\* lines 244-245: the flush clears the issue_id of the rows it loaded, one
\* UPDATE by primary key each, and deletes the issue row (a DELETE that
\* matches no row is a warning, not an error); rows that other requests
\* committed for the issue since the SELECTs keep its id.  The answer reads
\* nothing back
DeleteIssueCommit(r) ==
    /\ sess[r].op = "delete"
    /\ sess[r].phase = "childrenLoaded"
    /\ issues' = [k \in DOMAIN issues \ {sess[r].issue} |-> issues[k]]
    /\ issue_images' = Orphaned(issue_images, sess[r].images)
    /\ status_logs' = Orphaned(status_logs, sess[r].logs)
    /\ sess' = [sess EXCEPT ![r] = Idle]
    /\ resp' = Response("delete", 200, [message |-> "Issue deleted"])

(* ------------------------------- lists --------------------------------- *)
\* lines 111-117 and 232: query.all() carries no ORDER BY, so the order of
\* the rows is the database's to choose: the sequences a SELECT of the
\* rows `ids` may return.  The database is the one DATABASE_URL names
\* (config.py line 7); SQLite, the default, scans the table by rowid
query_all(ids) ==
    {rows \in [1..Cardinality(ids) -> ids] :
        \A j, k \in 1..Cardinality(ids) : j # k => rows[j] # rows[k]}

\* geopy's Point: a longitude is brought into [-180, 180), a latitude
\* outside [-90, 90] raises ValueError
NormalizeLongitude(lon) == ((lon + 180) % 360) - 180

PointError(lat) == lat < -90 \/ lat > 90

\* geodesic(...).km on the WGS-84 ellipsoid between the whole-degree points
\* of the requests (latitudes 12 and -12, longitudes 77 and 200), as the
\* least whole number of km not below it: 0 for the same point, 2654.169
\* along a meridian, 13197.503 along a parallel, 13840.437 across both
GeodesicKm(lat1, lon1, lat2, lon2) ==
    LET dlat == lat1 # lat2
        dlon == NormalizeLongitude(lon1) # NormalizeLongitude(lon2)
    IN CASE ~dlat /\ ~dlon -> 0
         [] dlat /\ ~dlon -> 2655
         [] ~dlat /\ dlon -> 13198
         [] OTHER -> 13841

\* lines 26-27; radius_km is a whole number of km
is_within_radius(user_lat, user_lon, issue_lat, issue_lon, radius_km) ==
    GeodesicKm(user_lat, user_lon, issue_lat, issue_lon) <= radius_km

\* lines 112-115: a filter is applied when its argument is given and not
\* empty
Filtered(iss, category, status) ==
    {i \in DOMAIN iss :
        /\ (category \notin {MISSING, ""} => iss[i].category = category)
        /\ (status \notin {MISSING, ""} => iss[i].status = status)}

\* GET /api/issues up to the rows it will serialise (lines 96-121);
\* current_user_id is NULL without a token.  float() of the radius is
\* outside the try block, and so is the ValueError geodesic raises for a
\* latitude outside [-90, 90], of the query or of a row that passed the
\* filters: both end the request with status 500.  The rows come from one
\* SELECT (line 117) and the radius test reads their loaded coordinates;
\* with no row in range the empty array is sent at once (line 123)
GetIssues(r, current_user_id, args) ==
    /\ sess[r] = Idle
    /\ UNCHANGED <<issues, issue_images, status_logs>>
    /\ IF args.lat \notin FloatStrings \/ args.lon \notin FloatStrings
       THEN /\ resp' = Response("list", 400, ErrorBody("Invalid coordinates"))
            /\ UNCHANGED sess
       ELSE IF args.radius # MISSING /\ args.radius \notin FloatStrings
       THEN /\ resp' = Response("list", 500, ErrorBody("Internal Server Error"))
            /\ UNCHANGED sess
       ELSE LET user_lat == ParseFloat(args.lat)
                user_lon == ParseFloat(args.lon)
                radius == IF args.radius = MISSING THEN DefaultRadius
                          ELSE ParseFloat(args.radius)
            IN \E rows \in query_all(Filtered(issues, args.category, args.status)) :
                 LET nearby == SelectSeq(rows, LAMBDA i :
                                   is_within_radius(user_lat, user_lon,
                                                    issues[i].latitude,
                                                    issues[i].longitude, radius))
                 IN IF rows # <<>> /\ (PointError(user_lat)
                                        \/ \E k \in 1..Len(rows) :
                                              PointError(issues[rows[k]].latitude))
                    THEN /\ resp' = Response("list", 500, ErrorBody("Internal Server Error"))
                         /\ UNCHANGED sess
                    ELSE IF nearby = <<>>
                    THEN /\ resp' = Response("list", 200, AnswerBody("list", <<>>))
                         /\ UNCHANGED sess
                    ELSE /\ sess' = [sess EXCEPT ![r] =
                                       Formatting("list", current_user_id,
                                                  current_user_id, Loaded(nearby))]
                         /\ resp' = NoResponse

\* GET /api/admin/issues up to the rows it will serialise (lines 225-232):
\* the caller is tested and the whole table read by one SELECT; line 233
\* passes no user to format_issue
GetAllIssues(r, user_id) ==
    /\ sess[r] = Idle
    /\ UNCHANGED <<issues, issue_images, status_logs>>
    /\ IF Unauthorized(user_id)
       THEN /\ resp' = Response("adminList", 403, ErrorBody("Unauthorized"))
            /\ UNCHANGED sess
       ELSE IF DOMAIN issues = {}
       THEN /\ resp' = Response("adminList", 200, AnswerBody("adminList", <<>>))
            /\ UNCHANGED sess
       ELSE \E rows \in query_all(DOMAIN issues) :
               /\ sess' = [sess EXCEPT ![r] =
                             Formatting("adminList", user_id, NULL, Loaded(rows))]
               /\ resp' = NoResponse

(* --------------------------- request inputs ---------------------------- *)
Form(title, description, category, latitude, longitude, is_anonymous, files) ==
    [title |-> title, description |-> description, category |-> category,
     latitude |-> latitude, longitude |-> longitude,
     is_anonymous |-> is_anonymous, files |-> files]

PhotoPng == <<"a", ".", "P", "N", "G">>
NotesTxt == <<"b", ".", "t", "x", "t">>
DotPng == <<".", "p", "n", "g">>

\* create requests: an anonymous report with one accepted photo (the text
\* file is skipped); a report whose only upload secures to a name without
\* "."; a report with empty title and category and a latitude past 90; a
\* form without description; a form whose latitude is not a number
FormPhoto == Form("Pothole", "Deep one", "road", "12", "77", "True", <<NotesTxt, PhotoPng>>)
FormDotPng == Form("Dump", "Smells", "garbage", "-12", "200", MISSING, <<DotPng>>)
FormEmpty == Form("", "Dark", "", "95", "77", "false", <<>>)
FormNoDescription == Form("Dump", MISSING, "garbage", "12", "77", "false", <<>>)
FormBadLatitude == Form("Dump", "Smells", "garbage", "abc", "77", "false", <<>>)

Patch(title, description, category) ==
    [title |-> title, description |-> description, category |-> category]

PatchTitleCategory == Patch("Crater", MISSING, "lighting")
PatchDescription == Patch(MISSING, "Fixed soon", MISSING)
PatchNothing == Patch(MISSING, MISSING, MISSING)

\* reports without uploads: at the centre of the list queries, and on its
\* meridian 24 degrees south
FormNear == Form("Dump", "Smells", "garbage", "12", "77", "false", <<>>)
FormFar == Form("Pothole", "Deep one", "road", "-12", "77", "false", <<>>)

\* request.args of GET /api/issues
Query(lat, lon, radius, category, status) ==
    [lat |-> lat, lon |-> lon, radius |-> radius, category |-> category, status |-> status]

\* the queries of SpecList: the default radius, a radius that holds every
\* whole-degree point of the reports, the filters, a radius of 0, a centre
\* outside the latitude range, no latitude, a radius that is no number
FewQueries ==
    {Query("12", "77", MISSING, MISSING, MISSING),
     Query("12", "77", "3000", MISSING, MISSING),
     Query("12", "77", "3000", "garbage", "Resolved"),
     Query("12", "77", "0", MISSING, "Resolved"),
     Query("95", "77", "3000", MISSING, MISSING),
     Query(MISSING, "77", MISSING, MISSING, MISSING),
     Query("12", "77", "abc", MISSING, MISSING)}

ListQueries ==
    [lat : {"12", "95", MISSING}, lon : {"77"}, radius : {MISSING, "0", "3000", "abc"},
     category : {MISSING, "garbage"}, status : {MISSING, "Resolved"}]

(* --------------------------- specifications --------------------------- *)
\* The server of line 255 is threaded: the requests in Reqs are under way
\* at once, each in its own session, and the steps of different requests
\* interleave.  No lock, version column or SELECT ... FOR UPDATE is used by
\* the handlers, so a commit writes the values computed from the rows as
\* they were when the session loaded them, and an answer is put together
\* from rows read at different times.

\* the steps that carry a request on once it is taken
Continue(r) ==
    \/ \E io_ok \in BOOLEAN : ReportUploads(r, io_ok)
    \/ ReportCommit(r)
    \/ ReportAnswer(r)
    \/ UpdateIssueCommit(r)
    \/ UpdateIssueAnswer(r)
    \/ UpdateIssueStatusCommit(r)
    \/ UpdateIssueStatusAnswer(r)
    \/ UpvoteIssueCommit(r)
    \/ UpvoteIssueAnswer(r)
    \/ FlagCommit(r)
    \/ FlagAnswer(r)
    \/ DeleteIssueImages(r)
    \/ DeleteIssueLogs(r)
    \/ DeleteIssueCommit(r)
    \/ FormatImages(r)
    \/ FormatLogs(r)

\* Spec: every handler with every input of this model, over a table of up
\* to two issues
Creators == {1, 2}
Forms == {FormPhoto, FormDotPng, FormEmpty, FormNoDescription, FormBadLatitude,
          FormNear, FormFar}
Patches == {PatchTitleCategory, PatchDescription, PatchNothing}
StatusInputs == {"Reported", "In Progress", "Resolved", "Flagged", "InProgress", "", MISSING}
AllIssueIds == {1, 2}

Next ==
    \/ \E r \in Reqs, u \in Creators, form \in Forms : ReportBegin(r, AllIssueIds, u, form)
    \/ \E r \in Reqs, u \in Users, i \in AllIssueIds, data \in Patches :
          UpdateIssueLoad(r, u, i, data)
    \/ \E r \in Reqs, u \in Users, i \in AllIssueIds, st \in StatusInputs :
          UpdateIssueStatusLoad(r, u, i, st)
    \/ \E r \in Reqs, i \in AllIssueIds : UpvoteIssueLoad(r, MaxVotes, i)
    \/ \E r \in Reqs, i \in AllIssueIds : FlagLoad(r, MaxFlags, i)
    \/ \E r \in Reqs, u \in Users, i \in AllIssueIds : DeleteIssueLoad(r, u, i)
    \/ \E r \in Reqs, u \in {NULL, 1}, args \in ListQueries : GetIssues(r, u, args)
    \/ \E r \in Reqs, u \in Users : GetAllIssues(r, u)
    \/ \E r \in Reqs : Continue(r)

Spec == Init /\ [][Next]_vars

\* SpecFlag: one report, flagged up to MaxFlags times, triaged by admin 2
\* and deleted by admin 3
FlagForms == {FormNear}

NextFlag ==
    \/ \E r \in Reqs, form \in FlagForms : ReportBegin(r, IssueIds, 1, form)
    \/ \E r \in Reqs : ReportUploads(r, TRUE)
    \/ \E r \in Reqs : ReportCommit(r)
    \/ \E r \in Reqs : ReportAnswer(r)
    \/ \E r \in Reqs, i \in IssueIds : FlagLoad(r, MaxFlags, i)
    \/ \E r \in Reqs : FlagCommit(r)
    \/ \E r \in Reqs : FlagAnswer(r)
    \/ \E r \in Reqs, i \in IssueIds : UpdateIssueStatusLoad(r, 2, i, "Resolved")
    \/ \E r \in Reqs : UpdateIssueStatusCommit(r)
    \/ \E r \in Reqs : UpdateIssueStatusAnswer(r)
    \/ \E r \in Reqs, i \in IssueIds : DeleteIssueLoad(r, 3, i)
    \/ \E r \in Reqs : DeleteIssueImages(r)
    \/ \E r \in Reqs : DeleteIssueLogs(r)
    \/ \E r \in Reqs : DeleteIssueCommit(r)
    \/ \E r \in Reqs : FormatImages(r)
    \/ \E r \in Reqs : FormatLogs(r)

SpecFlag == Init /\ [][NextFlag]_vars

\* SpecStatus: admin 2's report, triaged by user 1 (no admin) and admin 2
\* with a listed status, with Flagged, with an unlisted one, with an empty
\* one and with none, flagged up to the threshold, and deleted by user 1
\* and admin 3
TriageForms == {FormNear}
TriageStatusInputs == {"Resolved", "Flagged", "InProgress", "", MISSING}
Triagers == {1, 2}
Removers == {1, 3}


NextStatus ==
    \/ \E r \in Reqs, form \in TriageForms : ReportBegin(r, IssueIds, 2, form)
    \/ \E r \in Reqs : ReportUploads(r, TRUE)
    \/ \E r \in Reqs : ReportCommit(r)
    \/ \E r \in Reqs : ReportAnswer(r)
    \/ \E r \in Reqs, u \in Triagers, i \in IssueIds, st \in TriageStatusInputs :
          UpdateIssueStatusLoad(r, u, i, st)
    \/ \E r \in Reqs : UpdateIssueStatusCommit(r)
    \/ \E r \in Reqs : UpdateIssueStatusAnswer(r)
    \/ \E r \in Reqs, i \in IssueIds : FlagLoad(r, FlagThreshold, i)
    \/ \E r \in Reqs : FlagCommit(r)
    \/ \E r \in Reqs : FlagAnswer(r)
    \/ \E r \in Reqs, u \in Removers, i \in IssueIds : DeleteIssueLoad(r, u, i)
    \/ \E r \in Reqs : DeleteIssueImages(r)
    \/ \E r \in Reqs : DeleteIssueLogs(r)
    \/ \E r \in Reqs : DeleteIssueCommit(r)
    \/ \E r \in Reqs : FormatImages(r)
    \/ \E r \in Reqs : FormatLogs(r)

SpecStatus == Init /\ [][NextStatus]_vars

\* SpecAdmin: the admin routes of SpecStatus, called by user 1 and by the
\* admins 2 and 3 on admin 2's report
NextAdmin ==
    \/ \E r \in Reqs, form \in TriageForms : ReportBegin(r, IssueIds, 2, form)
    \/ \E r \in Reqs : ReportUploads(r, TRUE)
    \/ \E r \in Reqs : ReportCommit(r)
    \/ \E r \in Reqs : ReportAnswer(r)
    \/ \E r \in Reqs, u \in Triagers, i \in IssueIds, st \in TriageStatusInputs :
          UpdateIssueStatusLoad(r, u, i, st)
    \/ \E r \in Reqs : UpdateIssueStatusCommit(r)
    \/ \E r \in Reqs : UpdateIssueStatusAnswer(r)
    \/ \E r \in Reqs, u \in Removers, i \in IssueIds : DeleteIssueLoad(r, u, i)
    \/ \E r \in Reqs : DeleteIssueImages(r)
    \/ \E r \in Reqs : DeleteIssueLogs(r)
    \/ \E r \in Reqs : DeleteIssueCommit(r)
    \/ \E r \in Reqs : FormatImages(r)
    \/ \E r \in Reqs : FormatLogs(r)

SpecAdmin == Init /\ [][NextAdmin]_vars

\* SpecFlagged: admin 2's report, triaged by admin 2 with the inputs of
\* SpecStatus, flagged up to the threshold and upvoted
NextFlagged ==
    \/ \E r \in Reqs, form \in TriageForms : ReportBegin(r, IssueIds, 2, form)
    \/ \E r \in Reqs : ReportUploads(r, TRUE)
    \/ \E r \in Reqs : ReportCommit(r)
    \/ \E r \in Reqs : ReportAnswer(r)
    \/ \E r \in Reqs, i \in IssueIds, st \in TriageStatusInputs :
          UpdateIssueStatusLoad(r, 2, i, st)
    \/ \E r \in Reqs : UpdateIssueStatusCommit(r)
    \/ \E r \in Reqs : UpdateIssueStatusAnswer(r)
    \/ \E r \in Reqs, i \in IssueIds : FlagLoad(r, FlagThreshold, i)
    \/ \E r \in Reqs : FlagCommit(r)
    \/ \E r \in Reqs : FlagAnswer(r)
    \/ \E r \in Reqs, i \in IssueIds : UpvoteIssueLoad(r, MaxUpvotes, i)
    \/ \E r \in Reqs : UpvoteIssueCommit(r)
    \/ \E r \in Reqs : UpvoteIssueAnswer(r)
    \/ \E r \in Reqs : FormatImages(r)
    \/ \E r \in Reqs : FormatLogs(r)

SpecFlagged == Init /\ [][NextFlagged]_vars

\* SpecCreate: reports of users 1 and 2 with and without uploads, edited by
\* every user and deleted by admin 3
CreateForms == {FormPhoto, FormDotPng, FormEmpty, FormNoDescription, FormBadLatitude}
CreatePatches == {PatchTitleCategory}

NextCreate ==
    \/ \E r \in Reqs, u \in Creators, form \in CreateForms : ReportBegin(r, IssueIds, u, form)
    \/ \E r \in Reqs, io_ok \in BOOLEAN : ReportUploads(r, io_ok)
    \/ \E r \in Reqs : ReportCommit(r)
    \/ \E r \in Reqs : ReportAnswer(r)
    \/ \E r \in Reqs, u \in Users, i \in IssueIds, data \in CreatePatches :
          UpdateIssueLoad(r, u, i, data)
    \/ \E r \in Reqs : UpdateIssueCommit(r)
    \/ \E r \in Reqs : UpdateIssueAnswer(r)
    \/ \E r \in Reqs, i \in IssueIds : DeleteIssueLoad(r, 3, i)
    \/ \E r \in Reqs : DeleteIssueImages(r)
    \/ \E r \in Reqs : DeleteIssueLogs(r)
    \/ \E r \in Reqs : DeleteIssueCommit(r)
    \/ \E r \in Reqs : FormatImages(r)
    \/ \E r \in Reqs : FormatLogs(r)

SpecCreate == Init /\ [][NextCreate]_vars

\* SpecFields: user 1's anonymous report with a photo, under every shape of
\* edit request of its owner and of admin 3, upvoted, and resolved by admin 3
FieldForms == {FormPhoto}
FieldPatches == {PatchTitleCategory, PatchDescription, PatchNothing}

NextFields ==
    \/ \E r \in Reqs, form \in FieldForms : ReportBegin(r, IssueIds, 1, form)
    \/ \E r \in Reqs : ReportUploads(r, TRUE)
    \/ \E r \in Reqs : ReportCommit(r)
    \/ \E r \in Reqs : ReportAnswer(r)
    \/ \E r \in Reqs, u \in {1, 3}, i \in IssueIds, data \in FieldPatches :
          UpdateIssueLoad(r, u, i, data)
    \/ \E r \in Reqs : UpdateIssueCommit(r)
    \/ \E r \in Reqs : UpdateIssueAnswer(r)
    \/ \E r \in Reqs, i \in IssueIds : UpdateIssueStatusLoad(r, 3, i, "Resolved")
    \/ \E r \in Reqs : UpdateIssueStatusCommit(r)
    \/ \E r \in Reqs : UpdateIssueStatusAnswer(r)
    \/ \E r \in Reqs, i \in IssueIds : UpvoteIssueLoad(r, MaxUpvotes, i)
    \/ \E r \in Reqs : UpvoteIssueCommit(r)
    \/ \E r \in Reqs : UpvoteIssueAnswer(r)
    \/ \E r \in Reqs : FormatImages(r)
    \/ \E r \in Reqs : FormatLogs(r)

SpecFields == Init /\ [][NextFields]_vars

\* SpecVotes: user 1's report, upvoted up to MaxVotes times, edited by its
\* owner and resolved by admin 3
VotePatches == {PatchDescription}

NextVotes ==
    \/ \E r \in Reqs, form \in FieldForms : ReportBegin(r, IssueIds, 1, form)
    \/ \E r \in Reqs : ReportUploads(r, TRUE)
    \/ \E r \in Reqs : ReportCommit(r)
    \/ \E r \in Reqs : ReportAnswer(r)
    \/ \E r \in Reqs, i \in IssueIds, data \in VotePatches : UpdateIssueLoad(r, 1, i, data)
    \/ \E r \in Reqs : UpdateIssueCommit(r)
    \/ \E r \in Reqs : UpdateIssueAnswer(r)
    \/ \E r \in Reqs, i \in IssueIds : UpdateIssueStatusLoad(r, 3, i, "Resolved")
    \/ \E r \in Reqs : UpdateIssueStatusCommit(r)
    \/ \E r \in Reqs : UpdateIssueStatusAnswer(r)
    \/ \E r \in Reqs, i \in IssueIds : UpvoteIssueLoad(r, MaxVotes, i)
    \/ \E r \in Reqs : UpvoteIssueCommit(r)
    \/ \E r \in Reqs : UpvoteIssueAnswer(r)
    \/ \E r \in Reqs : FormatImages(r)
    \/ \E r \in Reqs : FormatLogs(r)

SpecVotes == Init /\ [][NextVotes]_vars

\* SpecList: the two list routes over a table of up to two issues, filed
\* by user 1 at the query's centre, on its meridian 24 degrees south, and
\* at latitude 95; admin 3 may resolve the first and delete the second;
\* the database returns the rows of a list in either order
ListIssueIds == {1, 2}
ListForms == {FormNear, FormFar, FormEmpty}
Triaged == {1}
Removed == {2}

NextList ==
    \/ \E r \in Reqs, form \in ListForms : ReportBegin(r, ListIssueIds, 1, form)
    \/ \E r \in Reqs : ReportUploads(r, TRUE)
    \/ \E r \in Reqs : ReportCommit(r)
    \/ \E r \in Reqs : ReportAnswer(r)
    \/ \E r \in Reqs, i \in Triaged : UpdateIssueStatusLoad(r, 3, i, "Resolved")
    \/ \E r \in Reqs : UpdateIssueStatusCommit(r)
    \/ \E r \in Reqs : UpdateIssueStatusAnswer(r)
    \/ \E r \in Reqs, i \in Removed : DeleteIssueLoad(r, 3, i)
    \/ \E r \in Reqs : DeleteIssueImages(r)
    \/ \E r \in Reqs : DeleteIssueLogs(r)
    \/ \E r \in Reqs : DeleteIssueCommit(r)
    \/ \E r \in Reqs, u \in {NULL, 1}, args \in FewQueries : GetIssues(r, u, args)
    \/ \E r \in Reqs, u \in {1, 3} : GetAllIssues(r, u)
    \/ \E r \in Reqs : FormatImages(r)
    \/ \E r \in Reqs : FormatLogs(r)

SpecList == Init /\ [][NextList]_vars

(* ============================== claims ================================= *)
LogsOf(i) == RowsOf(status_logs, i)

FlaggedLogs(i) == SelectSeq(LogsOf(i), LAMBDA log : log.status = "Flagged")

AdminLogs(i) == SelectSeq(LogsOf(i), LAMBDA log : log.admin_id # NULL)

\* the kinds of step a request r takes: Takes, r goes from idle into
\* handler op; Moves, the step is one of r's own; Commits, r's commit of
\* handler op succeeds; Answers, r sends the answer of op, the last of the
\* reads that serialise the issue
Takes(r, op) == sess[r] = Idle /\ sess'[r].op = op

Moves(r, op, phase) == sess[r].op = op /\ sess[r].phase = phase /\ sess'[r] # sess[r]

Commits(r, op) ==
    /\ sess[r].op = op
    /\ sess[r].phase \in {"loaded", "commit"}
    /\ sess'[r].op = op
    /\ sess'[r].phase = "answer"

Answers(r, op) == sess[r].op = op /\ sess[r].phase = "logs" /\ sess'[r] = Idle

\* C1: an issue that no admin has triaged carries no Flagged log entry
\* below five flags and exactly one, with status Flagged, from the fifth
\* flag on: flags past the fifth append no further Flagged entry.
\* The handler has no status test, so the sixth flag appends a second one.
C1_OneFlaggedLog ==
    \A i \in DOMAIN issues :
        AdminLogs(i) = <<>> =>
            IF issues[i].flags >= 5
            THEN issues[i].status = "Flagged" /\ Len(FlaggedLogs(i)) = 1
            ELSE Len(FlaggedLogs(i)) = 0

\* C2: every existing issue with five or more flags has status Flagged,
\* or, where an admin's setStatus moved it out of Flagged, the status
\* Reported, In Progress or Resolved of an entry of an admin in its log.
\* A flag request that loaded a Flagged row with five flags, and commits
\* after the issue was deleted and its id given to a new report, writes
\* the count six into the new row and leaves its status Reported.
C2_FlagsImplyFlagged ==
    \A i \in DOMAIN issues :
        issues[i].flags >= 5 =>
            \/ issues[i].status = "Flagged"
            \/ /\ issues[i].status \in {"Reported", "In Progress", "Resolved"}
               /\ \E k \in 1..Len(AdminLogs(i)) :
                     AdminLogs(i)[k].status = issues[i].status

\* C3: no increment is lost: the commit of every flag request leaves the
\* stored count one above the count stored before it.
\* Two requests that both loaded the row before either committed write the
\* same count.
C3_NoLostIncrement ==
    [][\A r \in Reqs :
          Commits(r, "flag") =>
              /\ sess[r].issue \in DOMAIN issues
              /\ issues'[sess[r].issue].flags = issues[sess[r].issue].flags + 1]_vars

\* C4: one crossing of the threshold produces exactly one Flagged log
\* entry: an issue whose stored count stands at the threshold, with no
\* setStatus ever issued, carries exactly one.  Two requests that both
\* loaded a count of four each append one.
C4_OneFlaggedLogPerCrossing ==
    \A i \in DOMAIN issues :
        (issues[i].flags = 5 /\ AdminLogs(i) = <<>>) => Len(FlaggedLogs(i)) = 1

\* the row a create stores for the form of user u
AsFiled(row, u, form) ==
    /\ row.title = form.title
    /\ row.description = form.description
    /\ row.category = form.category
    /\ row.latitude = ParseFloat(form.latitude)
    /\ row.longitude = ParseFloat(form.longitude)
    /\ row.is_anonymous = (form.is_anonymous \in {"true", "True", "TRUE"})
    /\ row.user_id = u
    /\ row.status = "Reported"
    /\ row.upvotes = 0
    /\ row.flags = 0

\* C5: a create that succeeds stores, under a new id, the title,
\* description, category, coordinate and anonymity flag of the form, with
\* status Reported, no upvotes and no flags; its second commit appends
\* exactly one log entry, Reported with no admin; reading the issue then,
\* and in the 201 answer, while its row is as the create stored it, gives
\* those fields and a status log of exactly that one entry.
C5_CreateRoundTrip ==
    [][\A r \in Reqs :
          /\ Takes(r, "create") =>
                /\ sess'[r].issue \notin DOMAIN issues
                /\ sess'[r].issue \in DOMAIN issues'
                /\ AsFiled(issues'[sess'[r].issue], sess'[r].user_id, sess'[r].form)
          /\ Commits(r, "create") =>
                LET i == sess[r].issue
                    form == sess[r].form
                    u == sess[r].user_id
                IN /\ UNCHANGED issues
                   /\ status_logs' = Append(status_logs, [issue_id |-> i,
                                                          status |-> "Reported",
                                                          admin_id |-> NULL])
                   /\ (i \in DOMAIN issues /\ AsFiled(issues[i], u, form)) =>
                         LET b == format_issue(i, issues'[i], RowsOf(issue_images', i),
                                               RowsOf(status_logs', i), u)
                         IN /\ b.id = i
                            /\ b.title = form.title
                            /\ b.description = form.description
                            /\ b.category = form.category
                            /\ b.latitude = ParseFloat(form.latitude)
                            /\ b.longitude = ParseFloat(form.longitude)
                            /\ (b.user = {}) = (form.is_anonymous \in {"true", "True", "TRUE"})
                            /\ b.can_edit
                            /\ b.status = "Reported"
                            /\ b.upvotes = 0
                            /\ b.flags = 0
                            /\ b.logs = <<[status |-> "Reported", admin |-> {}]>>
          /\ Answers(r, "create") =>
                LET i == sess[r].todo[1].id
                    row == sess[r].todo[1].row
                IN /\ resp'.code = 201
                   /\ resp'.body.id = i
                   /\ (i \in DOMAIN issues /\ issues[i] = row) =>
                         /\ resp'.body.title = row.title
                         /\ resp'.body.description = row.description
                         /\ resp'.body.category = row.category
                         /\ resp'.body.latitude = row.latitude
                         /\ resp'.body.longitude = row.longitude
                         /\ (resp'.body.user = {}) = row.is_anonymous
                         /\ resp'.body.status = "Reported"
                         /\ resp'.body.upvotes = 0
                         /\ resp'.body.flags = 0
                         /\ resp'.body.logs = <<[status |-> "Reported", admin |-> {}]>>]_vars

\* C6: every committed state holds, for each issue, at least one status
\* log entry (the issue, its images and its Reported log are one unit).
\* The issue row is committed on its own first: it is in the tables without
\* a log until the second commit, and for good when the uploads fail.
C6_IssueHasLog ==
    \A i \in DOMAIN issues : LogsOf(i) # <<>>

\* C7: a delete answered 200 removes the issue and leaves in the image and
\* log tables exactly the rows that did not belong to it.
\* The rows stay, with issue_id cleared.
C7_DeleteCascades ==
    [][\A r \in Reqs :
          (sess[r].op = "delete" /\ sess'[r] = Idle /\ resp'.code = 200) =>
              LET i == sess[r].issue
              IN /\ i \notin DOMAIN issues'
                 /\ issue_images' = SelectSeq(issue_images, LAMBDA row : row.issue_id # i)
                 /\ status_logs' = SelectSeq(status_logs, LAMBDA row : row.issue_id # i)]_vars

\* C8: an edit of an existing issue by a user who is neither its owner nor
\* an admin is answered 403 and changes no issue, image or log row: no edit
\* writes to an issue of a user other than its sender unless the sender is
\* an admin; an edit by the owner or by an admin is taken, committed and
\* answered 200.
\* Nothing holds the row between the edit's load and its commit: when a
\* delete commits in between, the edit is answered 500, and when a report
\* of another user has taken the id by then, the edit is written to it.
C8_EditAuthorization ==
    [][\A r \in Reqs :
          /\ (sess[r] = Idle /\ (resp'.op = "edit" \/ sess'[r].op = "edit")) =>
                \A u \in Users, i \in IssueIds, data \in CreatePatches :
                   (UpdateIssueLoad(r, u, i, data) /\ i \in DOMAIN issues) =>
                       IF issues[i].user_id # u /\ u \notin {2, 3}
                       THEN /\ resp'.code = 403
                            /\ UNCHANGED <<issues, issue_images, status_logs, sess>>
                       ELSE Takes(r, "edit")
          /\ Moves(r, "edit", "loaded") =>
                /\ Commits(r, "edit")
                /\ issues' # issues =>
                      \/ sess[r].user_id \in {2, 3}
                      \/ issues[sess[r].issue].user_id = sess[r].user_id
          /\ Moves(r, "edit", "answer") => sess'[r] # Idle
          /\ Answers(r, "edit") => resp'.code = 200]_vars

\* C9: a setStatus by an admin with Reported, In Progress or Resolved on an
\* existing issue, whatever its status, is taken; its one commit sets the
\* status and appends exactly one log entry with that status and that
\* admin, and changes no image; it is answered 200.
\* Nothing holds the row between the load and the commit: a setStatus whose
\* issue a delete removes in between is answered 500, and one whose status
\* another request stored in between writes no status.
C9_SetStatus ==
    [][\A r \in Reqs :
          /\ (sess[r] = Idle /\ (resp'.op = "setStatus" \/ sess'[r].op = "setStatus")) =>
                \A u \in {2, 3}, i \in IssueIds, st \in AdminStatuses :
                   (UpdateIssueStatusLoad(r, u, i, st) /\ i \in DOMAIN issues) =>
                       /\ Takes(r, "setStatus")
                       /\ sess'[r].status = st
                       /\ sess'[r].user_id = u
                       /\ sess'[r].issue = i
          /\ Moves(r, "setStatus", "loaded") =>
                /\ Commits(r, "setStatus")
                /\ sess[r].issue \in DOMAIN issues'
                /\ issues'[sess[r].issue].status = sess[r].status
                /\ status_logs' = Append(status_logs,
                                          [issue_id |-> sess[r].issue,
                                           status |-> sess[r].status,
                                           admin_id |-> sess[r].user_id])
                /\ UNCHANGED issue_images
          /\ Moves(r, "setStatus", "answer") => sess'[r] # Idle
          /\ Answers(r, "setStatus") => resp'.code = 200]_vars

\* C10: setStatus and delete by a user who is not an admin are answered 403
\* and change no issue, image or log row, whatever other requests are under
\* way.
C10_AdminOnly ==
    [][\A r \in Reqs :
          (sess[r] = Idle /\ (resp'.op \in {"delete", "setStatus"}
                                \/ sess'[r].op \in {"delete", "setStatus"})) =>
             \A u \in Users \ {2, 3}, i \in IssueIds :
                (DeleteIssueLoad(r, u, i)
                   \/ \E st \in TriageStatusInputs : UpdateIssueStatusLoad(r, u, i, st)) =>
                    /\ resp'.code = 403
                    /\ UNCHANGED <<issues, issue_images, status_logs, sess>>]_vars

\* a delete refused while the issue exists and an admin's setStatus on it
\* is under way
C10_Witness ==
    /\ resp.op = "delete"
    /\ resp.code = 403
    /\ \E r \in Reqs :
          /\ sess[r].op = "setStatus"
          /\ sess[r].issue \in DOMAIN issues

C12_UpvoteCounts ==
    [][/\ \A r \in Reqs :
            /\ (sess[r] = Idle /\ (resp'.op = "upvote" \/ sess'[r].op = "upvote")) =>
                  \A i \in IssueIds :
                     (UpvoteIssueLoad(r, MaxVotes, i) /\ i \in DOMAIN issues) =>
                         /\ Takes(r, "upvote")
                         /\ sess'[r].loaded.upvotes = issues[i].upvotes
            /\ Moves(r, "upvote", "loaded") =>
                  /\ Commits(r, "upvote")
                  /\ sess[r].issue \in DOMAIN issues
                  /\ issues'[sess[r].issue].upvotes = sess[r].loaded.upvotes + 1
                  /\ (sess[r].loaded.upvotes = issues[sess[r].issue].upvotes) =>
                        issues'[sess[r].issue].upvotes = issues[sess[r].issue].upvotes + 1
            /\ Moves(r, "upvote", "answer") =>
                  /\ resp'.code = 200
                  /\ resp'.body.upvotes = issues[sess[r].issue].upvotes
                  /\ UNCHANGED issues
       /\ \A i \in DOMAIN issues' :
            IF i \notin DOMAIN issues
            THEN issues'[i].upvotes = 0
            ELSE (\A r \in Reqs : ~(Commits(r, "upvote") /\ sess[r].issue = i)) =>
                     issues'[i].upvotes = issues[i].upvotes]_vars

\* the third upvote of an issue, answered with 3, while an edit of the
\* issue is under way
C12_Witness ==
    /\ resp.op = "upvote"
    /\ resp.code = 200
    /\ resp.body.upvotes = 3
    /\ \E i \in DOMAIN issues :
          /\ issues[i].upvotes = 3
          /\ \E r \in Reqs : sess[r].op = "edit" /\ sess[r].issue = i

\* C16: a step of an edit changes nothing but, at its commit, title,
\* description and category of its issue: each of them that the commit
\* changes is named in the request and takes the value named for it; the
\* issue's status, upvotes, flags, owner, coordinate and anonymity flag,
\* every other issue, and the image and log tables are as before.
C16_EditFrame ==
    [][\A r \in Reqs :
          (sess[r].op = "edit" /\ sess'[r] # sess[r]) =>
              /\ UNCHANGED <<issue_images, status_logs>>
              /\ DOMAIN issues' = DOMAIN issues
              /\ \A i \in DOMAIN issues :
                    IF sess[r].phase = "loaded" /\ i = sess[r].issue
                    THEN \A c \in DOMAIN issues[i] :
                            issues'[i][c] # issues[i][c] =>
                                /\ c \in {"title", "description", "category"}
                                /\ sess[r].data[c] # MISSING
                                /\ issues'[i][c] = sess[r].data[c]
                    ELSE issues'[i] = issues[i]]_vars

\* an edit has given the issue the title and category it names, and is
\* answered 200 with them, the description as filed, the photo, the votes
\* and the status stored since
C16_Witness ==
    /\ resp.op = "edit"
    /\ resp.code = 200
    /\ resp.body.title = "Crater"
    /\ resp.body.category = "lighting"
    /\ resp.body.description = "Deep one"
    /\ resp.body.upvotes >= 1
    /\ resp.body.status = "Resolved"
    /\ Len(resp.body.images) = 1

\* C17: a create whose form has an empty title, an empty category, a
\* latitude outside [-90, 90] or a longitude outside [-180, 180] is answered
\* 400 and stores no issue, image or log row.
\* The handler tests none of these: it commits the row.
C17_CreateValidation ==
    [][\A r \in Reqs :
          (sess[r] = Idle /\ (resp'.op = "create" \/ sess'[r].op = "create")) =>
             \A u \in Creators, form \in CreateForms :
                (/\ ReportBegin(r, IssueIds, u, form)
                 /\ \/ form.title = ""
                    \/ form.category = ""
                    \/ /\ form.latitude \in FloatStrings
                       /\ (ParseFloat(form.latitude) < -90 \/ ParseFloat(form.latitude) > 90)
                    \/ /\ form.longitude \in FloatStrings
                       /\ (ParseFloat(form.longitude) < -180 \/ ParseFloat(form.longitude) > 180))
                => /\ resp'.code = 400
                   /\ UNCHANGED <<issues, issue_images, status_logs>>]_vars

\* C20: whenever no request is under way, each issue that has log entries
\* has the status its latest log entry records.
\* Flag requests that complete between the two commits of a create leave
\* the Reported entry last on an issue that is Flagged.
C20_LatestLogIsStatus ==
    (\A r \in Reqs : sess[r] = Idle) =>
        \A i \in DOMAIN issues :
            LogsOf(i) # <<>> => LogsOf(i)[Len(LogsOf(i))].status = issues[i].status

\* the log rows of issue i after the step
LogsOfNext(i) == RowsOf(status_logs', i)

\* C15: in every step that keeps an issue, the issue's log before the step
\* is a prefix of its log after it; the second commit of a create, the
\* commit of a setStatus and the commit of a flag call that changes the
\* status append exactly one entry; the steps of an edit, of an upvote and
\* of a flag call that leaves the status append none.
\* Every flag call from the fifth on appends a Flagged entry, also when the
\* issue is Flagged already (C1).
C15_LogAppendOnly ==
    [][\A i \in DOMAIN issues \cap DOMAIN issues' :
          LET old == LogsOf(i)
              new == LogsOfNext(i)
              grown == Len(new) - Len(old)
          IN /\ grown >= 0
             /\ SubSeq(new, 1, Len(old)) = old
             /\ \A r \in Reqs :
                   /\ (sess[r].op \in {"edit", "upvote"} /\ sess'[r] # sess[r]) => grown = 0
                   /\ (Commits(r, "setStatus") /\ sess[r].issue = i) => grown = 1
                   /\ (Commits(r, "create") /\ sess[r].issue = i) => grown = 1
                   /\ (sess[r].op = "flag" /\ sess'[r] # sess[r] /\ sess[r].issue = i) =>
                         grown = IF issues'[i].status # issues[i].status THEN 1 ELSE 0]_vars

\* C14: the issue that a create, an edit or a setStatus answers with has
\* can_edit true exactly when the user who sent the request is the owner
\* of the issue row that the answer serialises.
\* update_issue_status serialises the issue without the requesting user, so
\* an admin who triages an own report is answered can_edit false.
C14_CanEditIffOwner ==
    [][\A r \in Reqs, op \in {"create", "edit", "setStatus"} :
          Answers(r, op) =>
              resp'.body.can_edit = (sess[r].todo[1].row.user_id = sess[r].user_id)]_vars

\* C19: what format_issue gives a requester for an anonymous issue is the
\* same for the row as it is stored and for the row with another user as
\* its owner, for every requester (a user, or nobody) who is the owner in
\* neither: the user entry is null and no other entry tells the owners
\* apart.
C19_AnonymousOwnerHidden ==
    \A i \in DOMAIN issues :
        issues[i].is_anonymous =>
            \A requester \in (Users \cup {NULL}) \ {issues[i].user_id} :
                LET ims == RowsOf(issue_images, i)
                    lgs == RowsOf(status_logs, i)
                    sent == format_issue(i, issues[i], ims, lgs, requester)
                IN /\ sent.user = {}
                   /\ \A owner \in Users \ {requester} :
                         sent = format_issue(i, [issues[i] EXCEPT !.user_id = owner],
                                             ims, lgs, requester)

\* an anonymous issue with a photo and a triage entry, sent to an admin who
\* edited it and is not its owner
C19_Witness ==
    /\ resp.op = "edit"
    /\ resp.code = 200
    /\ resp.body.user = {}
    /\ ~resp.body.can_edit
    /\ Len(resp.body.images) = 1
    /\ \E i \in DOMAIN issues :
          /\ issues[i].is_anonymous
          /\ AdminLogs(i) # <<>>
          /\ resp.body = format_issue(i, issues[i], RowsOf(issue_images, i),
                                      RowsOf(status_logs, i), 3)

\* the ids of the issues in a sequence of loaded or of serialised issues
IdsOf(seq) == {seq[k].id : k \in 1..Len(seq)}

\* C13: a list request with a centre inside the coordinate ranges and a
\* radius R is answered 200 with exactly the issues, of all those stored
\* when it reads the table, that lie within R of the centre (R itself
\* included), have the category asked for when one is asked for, and have
\* the status asked for when one is asked for; with none of them when none
\* does.
\* A stored issue with a latitude outside [-90, 90], which create accepts
\* (C17), makes the distance computation raise: the request is answered 500.
C13_ListMembership ==
    [][\A r \in Reqs :
          /\ (sess[r] = Idle /\ (resp'.op = "list" \/ sess'[r].op = "list")) =>
                \A u \in {NULL, 1}, args \in FewQueries :
                   (/\ GetIssues(r, u, args)
                    /\ args.lat \in FloatStrings
                    /\ ParseFloat(args.lat) >= -90 /\ ParseFloat(args.lat) <= 90
                    /\ args.radius \in FloatStrings \cup {MISSING})
                   => /\ resp'.code \in {0, 200}
                      /\ (IF sess'[r] = Idle THEN IdsOf(resp'.body.issues)
                                             ELSE IdsOf(sess'[r].todo))
                           = {i \in DOMAIN issues :
                                /\ GeodesicKm(ParseFloat(args.lat), ParseFloat(args.lon),
                                              issues[i].latitude, issues[i].longitude)
                                     <= (IF args.radius = MISSING THEN 5
                                                                  ELSE ParseFloat(args.radius))
                                /\ (args.category # MISSING => issues[i].category = args.category)
                                /\ (args.status # MISSING => issues[i].status = args.status)}
          /\ Answers(r, "list") =>
                /\ resp'.code = 200
                /\ IdsOf(resp'.body.issues) = IdsOf(sess[r].out) \cup IdsOf(sess[r].todo)]_vars

\* the ids of a set in ascending order
RECURSIVE Ascending(_)
Ascending(ids) ==
    IF ids = {} THEN <<>>
    ELSE LET least == CHOOSE i \in ids : \A j \in ids : i <= j
         IN <<least>> \o Ascending(ids \ {least})

\* C18: a list request reads the issues that match it in ascending order
\* of id, a sequence fixed by its arguments and the table, and the list
\* answered 200 is in ascending order of id.
C18_ListAscending ==
    [][\A r \in Reqs :
          /\ Takes(r, "list") =>
                [k \in 1..Len(sess'[r].todo) |-> sess'[r].todo[k].id]
                   = Ascending(IdsOf(sess'[r].todo))
          /\ Answers(r, "list") =>
                /\ resp'.code = 200
                /\ \A k \in 1..(Len(resp'.body.issues) - 1) :
                      resp'.body.issues[k].id < resp'.body.issues[k + 1].id]_vars

====
